---- MODULE Spec2Model ----
(***************************************************************************)
(* Verification model of dbrt: the Kinect range observation model          *)
(* (KinectObserver), the RotaryTrackerBuilder, the arm robot emulator node *)
(* and the fusion tracker simulation node.                                 *)
(*                                                                         *)
(* Doubles are modelled as IEEE-754 classes: NaN, +Inf, -Inf, or a finite  *)
(* value held in fixed point (units of 1/SCALE).  A finite result whose    *)
(* magnitude exceeds MaxFin overflows to the infinity of its sign, as a    *)
(* double does beyond DBL_MAX.                                             *)
(***************************************************************************)
EXTENDS Integers, Sequences, FiniteSets, TLC

----------------------------------------------------------------------------
(* Double arithmetic *)

SCALE == 1000
MaxFin == 40000

Fin(n) == [k |-> "fin", v |-> n]
NaN == [k |-> "nan", v |-> 0]
PInf == [k |-> "inf", v |-> 1]
NInf == [k |-> "inf", v |-> -1]

IsNaN(a) == a.k = "nan"
isinf(a) == a.k = "inf"
IsFinite(a) == a.k = "fin"

Sgn(a) == IF a.v > 0 THEN 1 ELSE IF a.v < 0 THEN -1 ELSE 0
InfOf(s) == IF s > 0 THEN PInf ELSE NInf
Norm(n) == IF n > MaxFin THEN PInf ELSE IF n < -MaxFin THEN NInf ELSE Fin(n)

\* n / d rounded to nearest, d > 0
RDivPos(n, d) ==
    LET q == n \div d
        r == n % d
    IN  IF 2 * r >= d THEN q + 1 ELSE q
RDiv(n, d) == IF d > 0 THEN RDivPos(n, d) ELSE RDivPos(-n, -d)

Neg(a) == IF IsNaN(a) THEN NaN ELSE [k |-> a.k, v |-> -a.v]

Add(a, b) ==
    IF IsNaN(a) \/ IsNaN(b) THEN NaN
    ELSE IF isinf(a) /\ isinf(b) THEN (IF a.v = b.v THEN a ELSE NaN)
    ELSE IF isinf(a) THEN a
    ELSE IF isinf(b) THEN b
    ELSE Norm(a.v + b.v)
Sub(a, b) == Add(a, Neg(b))

Mul(a, b) ==
    IF IsNaN(a) \/ IsNaN(b) THEN NaN
    ELSE IF isinf(a) \/ isinf(b)
         THEN (IF Sgn(a) = 0 \/ Sgn(b) = 0 THEN NaN ELSE InfOf(Sgn(a) * Sgn(b)))
    ELSE Norm(RDiv(a.v * b.v, SCALE))

Div(a, b) ==
    IF IsNaN(a) \/ IsNaN(b) THEN NaN
    ELSE IF isinf(a) /\ isinf(b) THEN NaN
    ELSE IF isinf(a) THEN InfOf(a.v * (IF b.v < 0 THEN -1 ELSE 1))
    ELSE IF isinf(b) THEN Fin(0)
    ELSE IF b.v = 0 THEN (IF a.v = 0 THEN NaN ELSE InfOf(Sgn(a)))
    ELSE Norm(RDiv(a.v * SCALE, b.v))

\* a <= 0 as the comparison of doubles (false for NaN)
LeqZero(a) == ~IsNaN(a) /\ a.v <= 0
GeqZero(a) == ~IsNaN(a) /\ a.v >= 0

\* -log(0.5), sqrt(2*M_PI), sqrt(2), pi in fixed point
LN2 == 693
SQRT_2PI == 2507
SQRT_2 == 1414
PI == 3142

Pow2(n) == IF n = 0 THEN 1 ELSE IF n = 1 THEN 2 ELSE IF n = 2 THEN 4
           ELSE IF n = 3 THEN 8 ELSE IF n = 4 THEN 16 ELSE IF n = 5 THEN 32
           ELSE IF n = 6 THEN 64 ELSE IF n = 7 THEN 128 ELSE IF n = 8 THEN 256
           ELSE IF n = 9 THEN 512 ELSE IF n = 10 THEN 1024 ELSE 2048

\* e^x for a finite x: x = k*ln2 + r, e^x = 2^k * e^r, e^r by its Taylor series
ExpFin(x) ==
    LET k == RDiv(x, LN2)
        r == x - k * LN2
        t2 == RDiv(r * r, 2 * SCALE)
        t3 == RDiv(t2 * r, 3 * SCALE)
        t4 == RDiv(t3 * r, 4 * SCALE)
        t5 == RDiv(t4 * r, 5 * SCALE)
        s == SCALE + r + t2 + t3 + t4 + t5
    IN  IF k > 6 THEN PInf
        ELSE IF k < -11 THEN Fin(0)
        ELSE IF k >= 0 THEN Norm(s * Pow2(k))
        ELSE Fin(RDiv(s, Pow2(-k)))

Exp(a) ==
    IF IsNaN(a) THEN NaN
    ELSE IF isinf(a) THEN (IF a.v > 0 THEN PInf ELSE Fin(0))
    ELSE ExpFin(a.v)

\* erf(x) for a finite x >= 0 (Abramowitz-Stegun 7.1.26)
ErfPos(x) ==
    LET t == RDiv(SCALE * SCALE, SCALE + RDiv(328 * x, SCALE))
        h5 == 1061
        h4 == RDiv(h5 * t, SCALE) - 1453
        h3 == RDiv(h4 * t, SCALE) + 1421
        h2 == RDiv(h3 * t, SCALE) - 284
        h1 == RDiv(h2 * t, SCALE) + 255
        poly == RDiv(h1 * t, SCALE)
        e == ExpFin(-RDiv(x * x, SCALE)).v
    IN  IF x >= 4000 THEN SCALE ELSE SCALE - RDiv(poly * e, SCALE)

Erf(a) ==
    IF IsNaN(a) THEN NaN
    ELSE IF isinf(a) THEN Fin(a.v * SCALE)
    ELSE IF a.v >= 0 THEN Fin(ErfPos(a.v))
    ELSE Fin(-ErfPos(-a.v))

\* log(v) for a finite v > 0: v = m * 2^k with m in [1,2), log(m) by the atanh series
LogFin(v) ==
    LET up == v >= SCALE
        k == IF up
             THEN CHOOSE j \in 0..6 : SCALE * Pow2(j) <= v /\ v < SCALE * Pow2(j + 1)
             ELSE CHOOSE j \in 1..10 : SCALE <= v * Pow2(j) /\ v * Pow2(j) < 2 * SCALE
        m == IF up THEN RDiv(v, Pow2(k)) ELSE v * Pow2(k)
        z == RDiv((m - SCALE) * SCALE, m + SCALE)
        z2 == RDiv(z * z, SCALE)
        z3 == RDiv(z * z2, SCALE)
        z5 == RDiv(z3 * z2, SCALE)
        z7 == RDiv(z5 * z2, SCALE)
        lm == 2 * (z + RDiv(z3, 3) + RDiv(z5, 5) + RDiv(z7, 7))
    IN  IF up THEN k * LN2 + lm ELSE lm - k * LN2

Log(a) ==
    IF IsNaN(a) THEN NaN
    ELSE IF isinf(a) THEN (IF a.v > 0 THEN PInf ELSE NaN)
    ELSE IF a.v < 0 THEN NaN
    ELSE IF a.v = 0 THEN NInf
    ELSE Fin(LogFin(a.v))

\* sin(x) for a finite x: x reduced to [-pi/2, pi/2], then the Taylor series
SinFin(x) ==
    LET m == x % (2 * PI)
        r == IF 2 * m > 3 * PI THEN m - 2 * PI
             ELSE IF 2 * m > PI THEN PI - m
             ELSE m
        r2 == RDiv(r * r, SCALE)
        t3 == RDiv(r * r2, 6 * SCALE)
        t5 == RDiv(t3 * r2, 20 * SCALE)
        t7 == RDiv(t5 * r2, 42 * SCALE)
        t9 == RDiv(t7 * r2, 72 * SCALE)
    IN  r - t3 + t5 - t7 + t9

Sin(a) == IF IsFinite(a) THEN Fin(SinFin(a.v)) ELSE NaN

----------------------------------------------------------------------------
(* State *)

\* One KinectObserver called from one thread
VARIABLES
    obsPc,        \* "none" before the constructor has run, "live" after
    ctorArgs,     \* the constructor's arguments (history)
    params,       \* exponential_rate_, tail_weight_, model_sigma_, sigma_factor_, max_depth_
    prediction_,
    occlusion_,
    ctxSet,       \* the arguments of the most recent Condition (history)
    lastCall,     \* the most recent call and what it returned (history)
    nQueries      \* Probability/LogProbability calls since the most recent Condition,
                  \* counted up to MaxQueries (history)

obsVars == <<obsPc, ctorArgs, params, prediction_, occlusion_, ctxSet, lastCall, nQueries>>

\* Observer instances called from evaluation threads
VARIABLES
    thrObs,          \* the observer instance each thread evaluates on
    prediction_of,   \* prediction_ of each observer instance
    occlusion_of,    \* occlusion_ of each observer instance
    tpc,             \* where each thread is in Condition / Probability
    tCtx,            \* the arguments of the thread's latest Condition
    tOccRead,        \* the value of occlusion_ the thread's Probability has read
    tInterleaved,    \* another thread ran Condition since this thread's Condition began
    tResult          \* what the thread's latest Probability returned

thrVars == <<thrObs, prediction_of, occlusion_of, tpc, tCtx, tOccRead, tInterleaved, tResult>>

\* The two nodes: RobotState statics, the robot's sensor threads, the rotary
\* tracker and its builder, the fusion tracker, the consumer loop, the command loop
VARIABLES
    mainPc,                \* where main is
    rosOk,                 \* ros::ok()
    joint_count,           \* kinematics->num_joints()
    kinematics_set,        \* RobotState<>::kinematics_ has been assigned
    kinematics_mutex_set,  \* RobotState<>::kinematics_mutex_ has been assigned
    mutexHolder,           \* the context holding *kinematics_mutex_, or "none"
    inFK,                  \* the contexts inside a forward-kinematics computation
    crashed,               \* the process has died
    bI,                    \* i of create_joint_filters
    joint_filters,         \* the vector create_joint_filters fills; the tracker's filters
    buildLog,              \* the indices passed to the builders, in call order (history)
    jointCb,               \* a joint sensor callback is registered
    imageCb,               \* an image sensor callback is registered
    robotRunning,          \* the robot's sensor threads are to run
    jsPc,                  \* the robot's joint sensor thread
    isPc,                  \* the robot's image sensor thread
    paused,                \* the emulator is paused
    ftInitialized,         \* fusion_tracker.initialize has completed
    ftRunning,             \* the fusion tracker's update loops are to run
    jQueue,                \* joint measurements handed to the rotary update loop
    iQueue,                \* images handed to the visual update loop
    rotPc,                 \* the rotary update loop
    rotI,                  \* the joint filter the rotary update is at
    rotMeas,               \* the measurement the rotary update works on
    visPc,                 \* the visual update loop
    visImg,                \* the image the visual update works on
    fused,                 \* the FusedState buffer
    lastPublished,         \* the buffer as the latest completed update left it (history)
    snapshot,              \* what the consumer's latest current_state() returned
    snapshotRef,           \* lastPublished at the time of that call (history)
    cmd,                   \* the line std::getline read
    lastOp,                \* the emulator call the latest line led to (history)
    prevPaused,            \* paused before that call (history)
    nLines,                \* lines read (history)
    nCalls,                \* pause/resume/toggle_pause calls made (history)
    runCalled              \* robot.run() has been called (history)

nodeVars == <<mainPc, rosOk, joint_count, kinematics_set, kinematics_mutex_set, mutexHolder,
              inFK, crashed, bI, joint_filters, buildLog, jointCb, imageCb, robotRunning,
              jsPc, isPc, paused, ftInitialized, ftRunning, jQueue, iQueue, rotPc, rotI,
              rotMeas, visPc, visImg, fused, lastPublished, snapshot, snapshotRef, cmd,
              lastOp, prevPaused, nLines, nCalls, runCalled>>

mainVars == <<mainPc, rosOk, joint_count>>
rsVars == <<kinematics_set, kinematics_mutex_set>>
fkVars == <<mutexHolder, inFK, crashed>>
buildVars == <<bI, joint_filters, buildLog>>
robotVars == <<jointCb, imageCb, robotRunning, jsPc, isPc, paused>>
ftVars == <<ftInitialized, ftRunning, jQueue, iQueue, rotPc, rotI, rotMeas, visPc, visImg,
            fused, lastPublished>>
consVars == <<snapshot, snapshotRef>>
cmdVars == <<cmd, lastOp, prevPaused, nLines, nCalls, runCalled>>

\* ArmRobotAnimator and the joint vectors animate is called on
VARIABLES
    t_,           \* ArmRobotAnimator::t_
    mem,          \* the joint vectors that exist, by object
    animCall,     \* the most recent animate call: its arguments, the increment
                  \* it added and the vectors before it (history)
    nAnimCalls    \* animate calls made

animVars == <<t_, mem, animCall, nAnimCalls>>

notObs == <<thrVars, nodeVars, animVars>>
notThr == <<obsVars, nodeVars, animVars>>
notNode == <<obsVars, thrVars, animVars>>
notAnim == <<obsVars, thrVars, nodeVars>>

----------------------------------------------------------------------------
(* KinectObserver *)

\* Argument values the callers are drawn from
TailWeights == {Fin(0), Fin(500)}
ModelSigmas == {Fin(0), Fin(500)}
SigmaFactors == {Fin(0), Fin(250)}
HalfLifeDepths == {Fin(-1000), Fin(0), Fin(1000)}
MaxDepths == {Fin(-2000), Fin(0), Fin(2000)}
Predictions == {NInf, Fin(-1000), Fin(0), Fin(1000), Fin(2000), PInf}
Observations == {Fin(-1000), Fin(0), Fin(1000), Fin(2000)}

NoParams == [exponential_rate |-> Fin(0), tail_weight |-> Fin(0), model_sigma |-> Fin(0),
             sigma_factor |-> Fin(0), max_depth |-> Fin(0)]
NoArgs == [tail_weight |-> Fin(0), model_sigma |-> Fin(0), sigma_factor |-> Fin(0),
           half_life_depth |-> Fin(0), max_depth |-> Fin(0)]
NoCall == [op |-> "none", arg |-> Fin(0), outcome |-> "none", ret |-> Fin(0)]
Unset == [set |-> FALSE, prediction |-> Fin(0), occlusion |-> FALSE]

\* Queries after one Condition that are told apart
MaxQueries == 2

Counted(n) == IF n < MaxQueries THEN n + 1 ELSE n

\* The member initialisers of the constructor
MakeParams(tail_weight, model_sigma, sigma_factor, half_life_depth, max_depth) ==
    [exponential_rate |-> Div(Fin(LN2), half_life_depth),
     tail_weight |-> tail_weight,
     model_sigma |-> model_sigma,
     sigma_factor |-> sigma_factor,
     max_depth |-> max_depth]

Sigma(P, observation) ==
    Add(P.model_sigma, Mul(Mul(P.sigma_factor, observation), observation))

TailTerm(P) == Div(P.tail_weight, P.max_depth)

\* !occlusion_, finite prediction_
VisibleFinite(P, prediction, observation) ==
    LET sigma == Sigma(P, observation)
        d == Sub(prediction, observation)
    IN  Add(TailTerm(P),
            Div(Mul(Sub(Fin(SCALE), P.tail_weight),
                    Exp(Neg(Div(Mul(d, d), Mul(Mul(Fin(2 * SCALE), sigma), sigma))))),
                Mul(Fin(SQRT_2PI), sigma)))

\* occlusion_, infinite prediction_
OccludedInfinite(P, observation) ==
    LET sigma == Sigma(P, observation)
        r == P.exponential_rate
    IN  Add(TailTerm(P),
            Mul(Mul(Sub(Fin(SCALE), P.tail_weight), r),
                Exp(Mul(Mul(Fin(SCALE \div 2), r),
                        Add(Mul(Fin(-2 * SCALE), observation),
                            Mul(Mul(r, sigma), sigma))))))

\* occlusion_, finite prediction_
OccludedFinite(P, prediction, observation) ==
    LET sigma == Sigma(P, observation)
        r == P.exponential_rate
        rss == Mul(Mul(r, sigma), sigma)
    IN  Add(TailTerm(P),
            Div(Mul(Mul(Mul(Sub(Fin(SCALE), P.tail_weight), r),
                        Exp(Mul(Mul(Fin(SCALE \div 2), r),
                                Add(Sub(Mul(Fin(2 * SCALE), prediction),
                                        Mul(Fin(2 * SCALE), observation)),
                                    rss)))),
                    Add(Fin(SCALE),
                        Erf(Div(Add(Sub(prediction, observation), rss),
                                Mul(Fin(SQRT_2), sigma))))),
                Mul(Fin(2 * SCALE), Sub(Exp(Mul(prediction, r)), Fin(SCALE)))))

\* ProbabilityOf with the occlusion test inverted
ProbabilityOf_SwappedOcclusion(P, prediction, occlusion, observation) ==
    IF occlusion
    THEN IF isinf(prediction)
         THEN TailTerm(P)
         ELSE VisibleFinite(P, prediction, observation)
    ELSE IF isinf(prediction)
         THEN OccludedInfinite(P, observation)
         ELSE OccludedFinite(P, prediction, observation)

ProbabilityOf(P, prediction, occlusion, observation) ==
    IF ~occlusion
    THEN IF isinf(prediction)
         THEN TailTerm(P)
         ELSE VisibleFinite(P, prediction, observation)
    ELSE IF isinf(prediction)
         THEN OccludedInfinite(P, observation)
         ELSE OccludedFinite(P, prediction, observation)

\* LogProbability returns std::log of the density; it has no other outcome
LogProbabilityOf(P, prediction, occlusion, observation) ==
    [outcome |-> "value", ret |-> Log(ProbabilityOf(P, prediction, occlusion, observation))]

\* The constructor: prediction_ and occlusion_ are left uninitialised
Construct ==
    /\ obsPc = "none"
    /\ \E tw \in TailWeights, ms \in ModelSigmas, sf \in SigmaFactors,
          hl \in HalfLifeDepths, md \in MaxDepths :
          /\ params' = MakeParams(tw, ms, sf, hl, md)
          /\ ctorArgs' = [tail_weight |-> tw, model_sigma |-> ms, sigma_factor |-> sf,
                          half_life_depth |-> hl, max_depth |-> md]
    /\ obsPc' = "live"
    /\ prediction_' \in Predictions
    /\ occlusion_' \in BOOLEAN
    /\ UNCHANGED <<ctxSet, lastCall, nQueries>>
    /\ UNCHANGED notObs

Condition ==
    /\ obsPc = "live"
    /\ \E prediction \in Predictions, occlusion \in BOOLEAN :
          /\ prediction_' = prediction
          /\ occlusion_' = occlusion
          /\ ctxSet' = [set |-> TRUE, prediction |-> prediction, occlusion |-> occlusion]
          /\ lastCall' = [op |-> "Condition", arg |-> prediction, outcome |-> "value",
                          ret |-> Fin(0)]
    /\ nQueries' = 0
    /\ UNCHANGED <<obsPc, ctorArgs, params>>
    /\ UNCHANGED notObs

\* Probability as a call that uses the context up: the members are left as
\* "no prediction, not occluded" once the density is computed
Probability_ConsumesContext ==
    /\ obsPc = "live"
    /\ \E observation \in Observations :
          lastCall' = [op |-> "Probability", arg |-> observation, outcome |-> "value",
                       ret |-> ProbabilityOf(params, prediction_, occlusion_, observation)]
    /\ prediction_' = PInf
    /\ occlusion_' = FALSE
    /\ nQueries' = Counted(nQueries)
    /\ UNCHANGED <<obsPc, ctorArgs, params, ctxSet>>
    /\ UNCHANGED notObs

Probability ==
    /\ obsPc = "live"
    /\ \E observation \in Observations :
          lastCall' = [op |-> "Probability", arg |-> observation, outcome |-> "value",
                       ret |-> ProbabilityOf(params, prediction_, occlusion_, observation)]
    /\ nQueries' = Counted(nQueries)
    /\ UNCHANGED <<obsPc, ctorArgs, params, prediction_, occlusion_, ctxSet>>
    /\ UNCHANGED notObs

LogProbability ==
    /\ obsPc = "live"
    /\ \E observation \in Observations :
          LET r == LogProbabilityOf(params, prediction_, occlusion_, observation)
          IN  lastCall' = [op |-> "LogProbability", arg |-> observation,
                           outcome |-> r.outcome, ret |-> r.ret]
    /\ nQueries' = Counted(nQueries)
    /\ UNCHANGED <<obsPc, ctorArgs, params, prediction_, occlusion_, ctxSet>>
    /\ UNCHANGED notObs

ObsInit ==
    /\ obsPc = "none"
    /\ ctorArgs = NoArgs
    /\ params = NoParams
    /\ prediction_ = Fin(0)
    /\ occlusion_ = FALSE
    /\ ctxSet = Unset
    /\ lastCall = NoCall
    /\ nQueries = 0

ObsNext == Construct \/ Condition \/ Probability \/ LogProbability

----------------------------------------------------------------------------
(* Evaluation threads calling Condition and Probability on observers *)

Threads == {1, 2}
Instances == {1, 2}
ThreadPredictions == {Fin(1000), Fin(2000), PInf}
ThreadObservations == {Fin(1000), Fin(2000)}
ThreadArgs == [tail_weight |-> Fin(500), model_sigma |-> Fin(500), sigma_factor |-> Fin(250),
               half_life_depth |-> Fin(1000), max_depth |-> Fin(2000)]
NoResult == [set |-> FALSE, obs |-> Fin(0), ret |-> Fin(0)]

\* As if prediction_ and occlusion_ were static members
CtxSlot_Static(t) == 1

\* prediction_ and occlusion_ are members of the instance the thread calls on
CtxSlot(t) == thrObs[t]

\* Condition, first assignment: prediction_ = prediction
ThrConditionPrediction(t) ==
    /\ tpc[t] = "idle"
    /\ \E prediction \in ThreadPredictions, occlusion \in BOOLEAN :
          /\ prediction_of' = [prediction_of EXCEPT ![CtxSlot(t)] = prediction]
          /\ tCtx' = [tCtx EXCEPT ![t] = [set |-> TRUE, prediction |-> prediction,
                                          occlusion |-> occlusion]]
    /\ tpc' = [tpc EXCEPT ![t] = "cond"]
    /\ tResult' = [tResult EXCEPT ![t] = NoResult]
    /\ tInterleaved' = [u \in Threads |->
                          IF u = t THEN FALSE ELSE tInterleaved[u] \/ tpc[u] # "idle"]
    /\ UNCHANGED <<thrObs, occlusion_of, tOccRead>>
    /\ UNCHANGED notThr

\* Condition, second assignment: occlusion_ = occlusion
ThrConditionOcclusion(t) ==
    /\ tpc[t] = "cond"
    /\ occlusion_of' = [occlusion_of EXCEPT ![CtxSlot(t)] = tCtx[t].occlusion]
    /\ tpc' = [tpc EXCEPT ![t] = "ready"]
    /\ tInterleaved' = [u \in Threads |->
                          IF u = t THEN tInterleaved[u] ELSE tInterleaved[u] \/ tpc[u] # "idle"]
    /\ UNCHANGED <<thrObs, prediction_of, tCtx, tOccRead, tResult>>
    /\ UNCHANGED notThr

\* Probability, the test of occlusion_
ThrProbabilityOcclusion(t) ==
    /\ tpc[t] = "ready"
    /\ \E observation \in ThreadObservations :
          tResult' = [tResult EXCEPT ![t] = [set |-> FALSE, obs |-> observation, ret |-> Fin(0)]]
    /\ tOccRead' = [tOccRead EXCEPT ![t] = occlusion_of[CtxSlot(t)]]
    /\ tpc' = [tpc EXCEPT ![t] = "prob"]
    /\ UNCHANGED <<thrObs, prediction_of, occlusion_of, tCtx, tInterleaved>>
    /\ UNCHANGED notThr

\* Probability, the read of prediction_ and the evaluation
ThrProbabilityReturn(t) ==
    /\ tpc[t] = "prob"
    /\ tResult' = [tResult EXCEPT ![t] =
                      [set |-> TRUE, obs |-> tResult[t].obs,
                       ret |-> ProbabilityOf(params, prediction_of[CtxSlot(t)], tOccRead[t],
                                             tResult[t].obs)]]
    /\ tpc' = [tpc EXCEPT ![t] = "idle"]
    /\ UNCHANGED <<thrObs, prediction_of, occlusion_of, tCtx, tOccRead, tInterleaved>>
    /\ UNCHANGED notThr

\* Both observers constructed with the same arguments; each thread has its own
\* instance or both share instance 1; the contexts are uninitialised
ThrInit ==
    /\ thrObs \in {[t \in Threads |-> t], [t \in Threads |-> 1]}
    /\ prediction_of \in [Instances -> {Fin(1000), PInf}]
    /\ occlusion_of \in [Instances -> BOOLEAN]
    /\ tpc = [t \in Threads |-> "idle"]
    /\ tCtx = [t \in Threads |-> Unset]
    /\ tOccRead = [t \in Threads |-> FALSE]
    /\ tInterleaved = [t \in Threads |-> FALSE]
    /\ tResult = [t \in Threads |-> NoResult]

ThrIdle ==
    /\ thrObs = [t \in Threads |-> t]
    /\ prediction_of = [i \in Instances |-> Fin(0)]
    /\ occlusion_of = [i \in Instances |-> FALSE]
    /\ tpc = [t \in Threads |-> "idle"]
    /\ tCtx = [t \in Threads |-> Unset]
    /\ tOccRead = [t \in Threads |-> FALSE]
    /\ tInterleaved = [t \in Threads |-> FALSE]
    /\ tResult = [t \in Threads |-> NoResult]

ObsConstructed ==
    /\ obsPc = "live"
    /\ ctorArgs = ThreadArgs
    /\ params = MakeParams(ThreadArgs.tail_weight, ThreadArgs.model_sigma,
                           ThreadArgs.sigma_factor, ThreadArgs.half_life_depth,
                           ThreadArgs.max_depth)
    /\ prediction_ = Fin(0)
    /\ occlusion_ = FALSE
    /\ ctxSet = Unset
    /\ lastCall = NoCall
    /\ nQueries = 0

ThrNext ==
    \E t \in Threads :
        \/ ThrConditionPrediction(t)
        \/ ThrConditionOcclusion(t)
        \/ ThrProbabilityOcclusion(t)
        \/ ThrProbabilityReturn(t)

----------------------------------------------------------------------------
(* RobotState: the shared kinematics and its guard *)

MaxJoints == 2
MaxQueue == 1
MaxLines == 3

MeasValues == {0, 2}
ImgValues == {1}
InitialAngle == 0

\* A context enters a forward-kinematics computation on RobotState::kinematics_:
\* it locks *kinematics_mutex_.  With kinematics_mutex_ never assigned there is
\* no mutex object to lock and the computation runs unguarded (or the process
\* dies: NullGuardCrash).
EnterFK(c) ==
    IF kinematics_mutex_set
    THEN /\ mutexHolder = "none"
         /\ mutexHolder' = c
         /\ inFK' = inFK \cup {c}
         /\ crashed' = crashed
    ELSE /\ inFK' = inFK \cup {c}
         /\ UNCHANGED <<mutexHolder, crashed>>

LeaveFK(c) ==
    /\ inFK' = inFK \ {c}
    /\ mutexHolder' = IF mutexHolder = c THEN "none" ELSE mutexHolder
    /\ crashed' = crashed

----------------------------------------------------------------------------
(* RotaryTrackerBuilder *)

\* transition_builder_->build(i) and sensor_builder_->build(i)
TransitionBuild(i) == [model |-> "transition", joint |-> i]
SensorBuild(i) == [model |-> "sensor", joint |-> i]

\* JointFilter(*transition, *sensor)
JointFilter(transition, sensor) ==
    [transition |-> transition, sensor |-> sensor, mean |-> InitialAngle]

\* The loop condition written with <=
BuildLoopCond_Leq(i, n) == i <= n

\* i < kinematics_->num_joints()
BuildLoopCond(i, n) == i < n

\* One iteration of create_joint_filters
BuildJointFilter ==
    /\ mainPc = "build" /\ ~crashed
    /\ BuildLoopCond(bI, joint_count)
    /\ joint_filters' = Append(joint_filters, JointFilter(TransitionBuild(bI), SensorBuild(bI)))
    /\ buildLog' = Append(buildLog, bI)
    /\ bI' = bI + 1
    /\ UNCHANGED <<mainVars, rsVars, fkVars, robotVars, ftVars, consVars, cmdVars>>
    /\ UNCHANGED notNode

\* The loop ends; build() makes the tracker of the filters; the fusion tracker is made
BuildTracker ==
    /\ mainPc = "build" /\ ~crashed
    /\ ~BuildLoopCond(bI, joint_count)
    /\ mainPc' = "robot"
    /\ UNCHANGED <<rosOk, joint_count, rsVars, fkVars, buildVars, robotVars, ftVars, consVars,
                   cmdVars>>
    /\ UNCHANGED notNode

----------------------------------------------------------------------------
(* FusionTracker *)

EmptyState == [joint |-> <<>>, visual |-> 0]
NoSnapshot == [set |-> FALSE, state |-> EmptyState, midUpdate |-> FALSE]

\* JointFilter Predict + Update with one measurement: the posterior mean
FilterUpdate(mean, m) == (mean + m + 1) \div 2

\* RotaryTracker::CurrentEstimate: each filter's estimate, in joint order
CurrentEstimate(filters) == [i \in 1..Len(filters) |-> filters[i].mean]

\* The estimate of joint i written into the FusedState buffer as soon as it is computed
StepFused_InPlace(buffer, i, estimate) ==
    [buffer EXCEPT !.joint = [k \in 1..Len(buffer.joint) |->
                                 IF k = i THEN estimate ELSE buffer.joint[k]]]

\* The FusedState buffer while an update is in progress: left alone until the
\* update replaces its component
StepFused(buffer, i, estimate) == buffer

\* joints_obsrv_callback: hands the measurement to the rotary update loop; a
\* measurement that finds the queue full is dropped
JointsCallback(queue, m) == IF Len(queue) < MaxQueue THEN Append(queue, m) ELSE queue

\* image_obsrv_callback: hands the image to the visual update loop; the newest
\* image replaces one still waiting
ImageCallback(queue, img) == <<img>>

\* The rotary update loop takes a measurement
RotaryTake ==
    /\ rotPc = "idle" /\ ftRunning /\ ~crashed
    /\ jQueue # <<>>
    /\ rotMeas' = Head(jQueue)
    /\ jQueue' = Tail(jQueue)
    /\ rotI' = 1
    /\ rotPc' = "update"
    /\ UNCHANGED <<ftInitialized, ftRunning, iQueue, visPc, visImg, fused, lastPublished>>
    /\ UNCHANGED <<mainVars, rsVars, fkVars, buildVars, robotVars, consVars, cmdVars>>
    /\ UNCHANGED notNode

\* RotaryTracker::Update: Predict + Update on the next JointFilter
RotaryFilterStep ==
    /\ rotPc = "update" /\ ~crashed
    /\ rotI <= Len(joint_filters)
    /\ LET est == FilterUpdate(joint_filters[rotI].mean, rotMeas)
       IN  /\ joint_filters' = [joint_filters EXCEPT ![rotI].mean = est]
           /\ fused' = StepFused(fused, rotI, est)
    /\ rotI' = rotI + 1
    /\ UNCHANGED <<ftInitialized, ftRunning, jQueue, iQueue, rotPc, rotMeas, visPc, visImg,
                   lastPublished>>
    /\ UNCHANGED <<mainVars, rsVars, fkVars, bI, buildLog, robotVars, consVars, cmdVars>>
    /\ UNCHANGED notNode

\* The update is complete: the joint component of FusedState is replaced
RotaryPublish ==
    /\ rotPc = "update" /\ ~crashed
    /\ rotI > Len(joint_filters)
    /\ fused' = [fused EXCEPT !.joint = CurrentEstimate(joint_filters)]
    /\ lastPublished' = [lastPublished EXCEPT !.joint = CurrentEstimate(joint_filters)]
    /\ rotPc' = "idle"
    /\ UNCHANGED <<ftInitialized, ftRunning, jQueue, iQueue, rotI, rotMeas, visPc, visImg>>
    /\ UNCHANGED <<mainVars, rsVars, fkVars, buildVars, robotVars, consVars, cmdVars>>
    /\ UNCHANGED notNode

\* The rotary update loop sees the tracker shut down and ends
RotaryExit ==
    /\ rotPc = "idle" /\ ~ftRunning /\ ~crashed
    /\ rotPc' = "stopped"
    /\ UNCHANGED <<ftInitialized, ftRunning, jQueue, iQueue, rotI, rotMeas, visPc, visImg,
                   fused, lastPublished>>
    /\ UNCHANGED <<mainVars, rsVars, fkVars, buildVars, robotVars, consVars, cmdVars>>
    /\ UNCHANGED notNode

\* The visual update loop takes an image
VisualTake ==
    /\ visPc = "idle" /\ ftRunning /\ ~crashed
    /\ iQueue # <<>>
    /\ visImg' = Head(iQueue)
    /\ iQueue' = Tail(iQueue)
    /\ visPc' = "taken"
    /\ UNCHANGED <<ftInitialized, ftRunning, jQueue, rotPc, rotI, rotMeas, fused, lastPublished>>
    /\ UNCHANGED <<mainVars, rsVars, fkVars, buildVars, robotVars, consVars, cmdVars>>
    /\ UNCHANGED notNode

\* VisualTracker::Update renders the hypotheses: forward kinematics on the shared kinematics
VisualRender ==
    /\ visPc = "taken" /\ ~crashed
    /\ EnterFK("visual_loop")
    /\ visPc' = "render"
    /\ UNCHANGED <<ftInitialized, ftRunning, jQueue, iQueue, rotPc, rotI, rotMeas, visImg,
                   fused, lastPublished>>
    /\ UNCHANGED <<mainVars, rsVars, buildVars, robotVars, consVars, cmdVars>>
    /\ UNCHANGED notNode

\* The update is complete: the visual component of FusedState is replaced
VisualPublish ==
    /\ visPc = "render" /\ ~crashed
    /\ LeaveFK("visual_loop")
    /\ fused' = [fused EXCEPT !.visual = visImg]
    /\ lastPublished' = [lastPublished EXCEPT !.visual = visImg]
    /\ visPc' = "idle"
    /\ UNCHANGED <<ftInitialized, ftRunning, jQueue, iQueue, rotPc, rotI, rotMeas, visImg>>
    /\ UNCHANGED <<mainVars, rsVars, buildVars, robotVars, consVars, cmdVars>>
    /\ UNCHANGED notNode

\* The visual update loop sees the tracker shut down and ends
VisualExit ==
    /\ visPc = "idle" /\ ~ftRunning /\ ~crashed
    /\ visPc' = "stopped"
    /\ UNCHANGED <<ftInitialized, ftRunning, jQueue, iQueue, rotPc, rotI, rotMeas, visImg,
                   fused, lastPublished>>
    /\ UNCHANGED <<mainVars, rsVars, fkVars, buildVars, robotVars, consVars, cmdVars>>
    /\ UNCHANGED notNode

----------------------------------------------------------------------------
(* VirtualRobot: the sensor threads of the simulated robot *)

\* The joint sensor thread reads the joints and calls the registered callback,
\* which is fusion_tracker.joints_obsrv_callback
JointSensorTick ==
    /\ jsPc = "idle" /\ robotRunning /\ ~crashed
    /\ jointCb
    /\ \E m \in MeasValues : jQueue' = JointsCallback(jQueue, m)
    /\ UNCHANGED <<ftInitialized, ftRunning, iQueue, rotPc, rotI, rotMeas, visPc, visImg,
                   fused, lastPublished>>
    /\ UNCHANGED robotVars
    /\ UNCHANGED <<mainVars, rsVars, fkVars, buildVars, consVars, cmdVars>>
    /\ UNCHANGED notNode

\* The joint sensor thread sees the robot shut down and ends
JointSensorExit ==
    /\ jsPc = "idle" /\ ~robotRunning /\ ~crashed
    /\ jsPc' = "stopped"
    /\ UNCHANGED <<jointCb, imageCb, robotRunning, isPc, paused>>
    /\ UNCHANGED <<mainVars, rsVars, fkVars, buildVars, ftVars, consVars, cmdVars>>
    /\ UNCHANGED notNode

\* The image sensor thread renders the robot: forward kinematics on the shared kinematics
ImageSensorRender ==
    /\ isPc = "idle" /\ robotRunning /\ ~crashed
    /\ EnterFK("image_sensor")
    /\ isPc' = "render"
    /\ UNCHANGED <<jointCb, imageCb, robotRunning, jsPc, paused>>
    /\ UNCHANGED <<mainVars, rsVars, buildVars, ftVars, consVars, cmdVars>>
    /\ UNCHANGED notNode

\* The image sensor thread calls the registered callback, which is
\* fusion_tracker.image_obsrv_callback
ImageSensorDeliver ==
    /\ isPc = "render" /\ ~crashed
    /\ LeaveFK("image_sensor")
    /\ imageCb
    /\ \E img \in ImgValues : iQueue' = ImageCallback(iQueue, img)
    /\ isPc' = "idle"
    /\ UNCHANGED <<ftInitialized, ftRunning, jQueue, rotPc, rotI, rotMeas, visPc, visImg,
                   fused, lastPublished>>
    /\ UNCHANGED <<jointCb, imageCb, robotRunning, jsPc, paused>>
    /\ UNCHANGED <<mainVars, rsVars, buildVars, consVars, cmdVars>>
    /\ UNCHANGED notNode

\* The image sensor thread sees the robot shut down and ends
ImageSensorExit ==
    /\ isPc = "idle" /\ ~robotRunning /\ ~crashed
    /\ isPc' = "stopped"
    /\ UNCHANGED <<jointCb, imageCb, robotRunning, jsPc, paused>>
    /\ UNCHANGED <<mainVars, rsVars, fkVars, buildVars, ftVars, consVars, cmdVars>>
    /\ UNCHANGED notNode

----------------------------------------------------------------------------
(* fusion_tracker_simulation_node: main *)

\* ros::ok() turns false (the node is told to stop)
Interrupt ==
    /\ rosOk /\ ~crashed
    /\ mainPc # "done"
    /\ rosOk' = FALSE
    /\ UNCHANGED <<mainPc, joint_count, rsVars, fkVars, buildVars, robotVars, ftVars,
                   consVars, cmdVars>>
    /\ UNCHANGED notNode

\* dbrt::RobotState<>::kinematics_ = kinematics; kinematics_mutex_ is not assigned
SimInstallKinematics ==
    /\ mainPc = "sim_start" /\ ~crashed
    /\ kinematics_set' = TRUE
    /\ mainPc' = "trackers"
    /\ UNCHANGED <<rosOk, joint_count, kinematics_mutex_set, fkVars, buildVars, robotVars,
                   ftVars, consVars, cmdVars>>
    /\ UNCHANGED notNode

\* create_visual_tracker, then create_rotary_tracker up to tracker_builder.build()
SimCreateTrackers ==
    /\ mainPc = "trackers" /\ ~crashed
    /\ bI' = 0
    /\ joint_filters' = <<>>
    /\ buildLog' = <<>>
    /\ mainPc' = "build"
    /\ UNCHANGED <<rosOk, joint_count, rsVars, fkVars, robotVars, ftVars, consVars, cmdVars>>
    /\ UNCHANGED notNode

\* dbrt::VirtualRobot<State> robot(...)
SimCreateRobot ==
    /\ mainPc = "robot" /\ ~crashed
    /\ mainPc' = "register_joint"
    /\ UNCHANGED <<rosOk, joint_count, rsVars, fkVars, buildVars, robotVars, ftVars, consVars,
                   cmdVars>>
    /\ UNCHANGED notNode

\* robot.joint_sensor_callback(...)
SimRegisterJoint ==
    /\ mainPc = "register_joint" /\ ~crashed
    /\ jointCb' = TRUE
    /\ mainPc' = "register_image"
    /\ UNCHANGED <<imageCb, robotRunning, jsPc, isPc, paused>>
    /\ UNCHANGED <<rosOk, joint_count, rsVars, fkVars, buildVars, ftVars, consVars, cmdVars>>
    /\ UNCHANGED notNode

\* robot.image_sensor_callback(...)
SimRegisterImage ==
    /\ mainPc = "register_image" /\ ~crashed
    /\ imageCb' = TRUE
    /\ mainPc' = "initialize"
    /\ UNCHANGED <<jointCb, robotRunning, jsPc, isPc, paused>>
    /\ UNCHANGED <<rosOk, joint_count, rsVars, fkVars, buildVars, ftVars, consVars, cmdVars>>
    /\ UNCHANGED notNode

\* fusion_tracker.initialize({robot.state()})
SimInitialize ==
    /\ mainPc = "initialize" /\ ~crashed
    /\ joint_filters' = [i \in 1..Len(joint_filters) |->
                            [joint_filters[i] EXCEPT !.mean = InitialAngle]]
    /\ fused' = [joint |-> [i \in 1..Len(joint_filters) |-> InitialAngle], visual |-> 0]
    /\ lastPublished' = fused'
    /\ ftInitialized' = TRUE
    /\ mainPc' = "robot_run"
    /\ UNCHANGED <<ftRunning, jQueue, iQueue, rotPc, rotI, rotMeas, visPc, visImg>>
    /\ UNCHANGED <<rosOk, joint_count, rsVars, fkVars, bI, buildLog, robotVars, consVars,
                   cmdVars>>
    /\ UNCHANGED notNode

\* robot.run() moved ahead of fusion_tracker.initialize: the sensor threads
\* start while main is still about to initialize the tracker
SimRobotRun_BeforeInitialize ==
    /\ mainPc \in {"initialize", "robot_run"} /\ ~crashed
    /\ mainPc = "initialize" => ~runCalled
    /\ robotRunning' = TRUE
    /\ jsPc' = (IF jsPc = "off" THEN "idle" ELSE jsPc)
    /\ isPc' = (IF isPc = "off" THEN "idle" ELSE isPc)
    /\ runCalled' = TRUE
    /\ mainPc' = (IF mainPc = "initialize" THEN "initialize" ELSE "ft_run")
    /\ UNCHANGED <<jointCb, imageCb, paused>>
    /\ UNCHANGED <<cmd, lastOp, prevPaused, nLines, nCalls>>
    /\ UNCHANGED <<rosOk, joint_count, rsVars, fkVars, buildVars, ftVars, consVars>>
    /\ UNCHANGED notNode

\* spinner.start(); robot.run(): the sensor threads start
SimRobotRun ==
    /\ mainPc = "robot_run" /\ ~crashed
    /\ robotRunning' = TRUE
    /\ jsPc' = "idle"
    /\ isPc' = "idle"
    /\ runCalled' = TRUE
    /\ mainPc' = "ft_run"
    /\ UNCHANGED <<jointCb, imageCb, paused>>
    /\ UNCHANGED <<cmd, lastOp, prevPaused, nLines, nCalls>>
    /\ UNCHANGED <<rosOk, joint_count, rsVars, fkVars, buildVars, ftVars, consVars>>
    /\ UNCHANGED notNode

\* fusion_tracker.run(): the two update loops start
SimFusionRun ==
    /\ mainPc = "ft_run" /\ ~crashed
    /\ ftRunning' = TRUE
    /\ rotPc' = "idle"
    /\ visPc' = "idle"
    /\ mainPc' = "loop"
    /\ UNCHANGED <<ftInitialized, jQueue, iQueue, rotI, rotMeas, visImg, fused, lastPublished>>
    /\ UNCHANGED <<rosOk, joint_count, rsVars, fkVars, buildVars, robotVars, consVars, cmdVars>>
    /\ UNCHANGED notNode

\* A joint update has updated some but not all filters and a visual update is under way
UpdatesInProgress ==
    /\ rotPc = "update" /\ rotI > 1 /\ rotI <= Len(joint_filters)
    /\ visPc \in {"taken", "render"}

\* while (ros::ok()): auto current_state = fusion_tracker.current_state()
SimCurrentState ==
    /\ mainPc = "loop" /\ rosOk /\ ~crashed
    /\ snapshot' = [set |-> TRUE, state |-> fused, midUpdate |-> UpdatesInProgress]
    /\ snapshotRef' = lastPublished
    /\ mainPc' = "publish"
    /\ UNCHANGED <<rosOk, joint_count, rsVars, fkVars, buildVars, robotVars, ftVars, cmdVars>>
    /\ UNCHANGED notNode

\* tracker_publisher->publish(current_state, ...): link poses by forward kinematics
SimPublish ==
    /\ mainPc = "publish" /\ ~crashed
    /\ EnterFK("main")
    /\ mainPc' = "publishing"
    /\ UNCHANGED <<rosOk, joint_count, rsVars, buildVars, robotVars, ftVars, consVars, cmdVars>>
    /\ UNCHANGED notNode

\* publish returns; ros::spinOnce(); current_state goes out of scope
SimSpinOnce ==
    /\ mainPc = "publishing" /\ ~crashed
    /\ LeaveFK("main")
    /\ snapshot' = NoSnapshot
    /\ snapshotRef' = EmptyState
    /\ mainPc' = "loop"
    /\ UNCHANGED <<rosOk, joint_count, rsVars, buildVars, robotVars, ftVars, cmdVars>>
    /\ UNCHANGED notNode

\* The loop ends; fusion_tracker.shutdown() tells the update loops to stop
SimFusionShutdown ==
    /\ mainPc = "loop" /\ ~rosOk /\ ~crashed
    /\ ftRunning' = FALSE
    /\ mainPc' = "ft_join"
    /\ UNCHANGED <<ftInitialized, jQueue, iQueue, rotPc, rotI, rotMeas, visPc, visImg, fused,
                   lastPublished>>
    /\ UNCHANGED <<rosOk, joint_count, rsVars, fkVars, buildVars, robotVars, consVars, cmdVars>>
    /\ UNCHANGED notNode

\* The condition under which fusion_tracker.shutdown() returns at once
ShutdownReturns_NoWait == TRUE

\* fusion_tracker.shutdown() returns when both update loops have ended
ShutdownReturns == rotPc = "stopped" /\ visPc = "stopped"

SimFusionJoined ==
    /\ mainPc = "ft_join" /\ ~crashed
    /\ ShutdownReturns
    /\ mainPc' = "robot_shutdown"
    /\ UNCHANGED <<rosOk, joint_count, rsVars, fkVars, buildVars, robotVars, ftVars, consVars,
                   cmdVars>>
    /\ UNCHANGED notNode

\* robot.shutdown() tells the sensor threads to stop
SimRobotShutdown ==
    /\ mainPc = "robot_shutdown" /\ ~crashed
    /\ robotRunning' = FALSE
    /\ mainPc' = "robot_join"
    /\ UNCHANGED <<jointCb, imageCb, jsPc, isPc, paused>>
    /\ UNCHANGED <<rosOk, joint_count, rsVars, fkVars, buildVars, ftVars, consVars, cmdVars>>
    /\ UNCHANGED notNode

\* robot.shutdown() returns when both sensor threads have ended; return 0
SimRobotJoined ==
    /\ mainPc = "robot_join" /\ ~crashed
    /\ jsPc = "stopped" /\ isPc = "stopped"
    /\ mainPc' = "done"
    /\ UNCHANGED <<rosOk, joint_count, rsVars, fkVars, buildVars, robotVars, ftVars, consVars,
                   cmdVars>>
    /\ UNCHANGED notNode

\* The state of a node when main starts
NodeInit(pc) ==
    /\ mainPc = pc
    /\ rosOk = TRUE
    /\ kinematics_set = FALSE
    /\ kinematics_mutex_set = FALSE
    /\ mutexHolder = "none"
    /\ inFK = {}
    /\ crashed = FALSE
    /\ bI = 0
    /\ joint_filters = <<>>
    /\ buildLog = <<>>
    /\ jointCb = FALSE
    /\ imageCb = FALSE
    /\ robotRunning = FALSE
    /\ jsPc = "off"
    /\ isPc = "off"
    /\ paused = FALSE
    /\ ftInitialized = FALSE
    /\ ftRunning = FALSE
    /\ jQueue = <<>>
    /\ iQueue = <<>>
    /\ rotPc = "off"
    /\ rotI = 1
    /\ rotMeas = 0
    /\ visPc = "off"
    /\ visImg = 0
    /\ fused = EmptyState
    /\ lastPublished = EmptyState
    /\ snapshot = NoSnapshot
    /\ snapshotRef = EmptyState
    /\ cmd = ""
    /\ lastOp = "none"
    /\ prevPaused = FALSE
    /\ nLines = 0
    /\ nCalls = 0
    /\ runCalled = FALSE

NodeIdle == NodeInit("none") /\ joint_count = 0

\* A context is about to enter a forward-kinematics computation
AtFKEntry == visPc = "taken" \/ (isPc = "idle" /\ robotRunning) \/ mainPc = "publish"

\* The other outcome of locking a kinematics_mutex_ that was never assigned:
\* the process dies, and with it every thread and all of its state
NullGuardCrash ==
    /\ ~crashed
    /\ ~kinematics_mutex_set
    /\ AtFKEntry
    /\ mainPc' = "crashed"
    /\ rosOk' = FALSE
    /\ kinematics_set' = FALSE
    /\ kinematics_mutex_set' = FALSE
    /\ mutexHolder' = "none"
    /\ inFK' = {}
    /\ crashed' = TRUE
    /\ bI' = 0
    /\ joint_filters' = <<>>
    /\ buildLog' = <<>>
    /\ jointCb' = FALSE
    /\ imageCb' = FALSE
    /\ robotRunning' = FALSE
    /\ jsPc' = "off"
    /\ isPc' = "off"
    /\ paused' = FALSE
    /\ ftInitialized' = FALSE
    /\ ftRunning' = FALSE
    /\ jQueue' = <<>>
    /\ iQueue' = <<>>
    /\ rotPc' = "off"
    /\ rotI' = 1
    /\ rotMeas' = 0
    /\ visPc' = "off"
    /\ visImg' = 0
    /\ fused' = EmptyState
    /\ lastPublished' = EmptyState
    /\ snapshot' = NoSnapshot
    /\ snapshotRef' = EmptyState
    /\ cmd' = ""
    /\ lastOp' = "none"
    /\ prevPaused' = FALSE
    /\ nLines' = 0
    /\ nCalls' = 0
    /\ runCalled' = FALSE
    /\ UNCHANGED joint_count
    /\ UNCHANGED notNode

SimNext ==
    \/ Interrupt
    \/ SimInstallKinematics
    \/ SimCreateTrackers
    \/ BuildJointFilter
    \/ BuildTracker
    \/ SimCreateRobot
    \/ SimRegisterJoint
    \/ SimRegisterImage
    \/ SimInitialize
    \/ SimRobotRun
    \/ SimFusionRun
    \/ SimCurrentState
    \/ SimPublish
    \/ SimSpinOnce
    \/ SimFusionShutdown
    \/ SimFusionJoined
    \/ SimRobotShutdown
    \/ SimRobotJoined
    \/ JointSensorTick
    \/ JointSensorExit
    \/ ImageSensorRender
    \/ ImageSensorDeliver
    \/ ImageSensorExit
    \/ RotaryTake
    \/ RotaryFilterStep
    \/ RotaryPublish
    \/ RotaryExit
    \/ VisualTake
    \/ VisualRender
    \/ VisualPublish
    \/ VisualExit
    \/ NullGuardCrash

----------------------------------------------------------------------------
(* arm_robot_emulator_node: main, and the RobotEmulator it drives *)

CmdLines == {"pause", "resume", "", "x"}

\* The command loop with the test for "resume" left out
Dispatch_NoResume(line) ==
    IF line = "pause" THEN "pause" ELSE "toggle_pause"

\* The call the command loop makes for a line
Dispatch(line) ==
    IF line = "pause" THEN "pause"
    ELSE IF line = "resume" THEN "resume"
    ELSE "toggle_pause"

\* RobotEmulator::pause, resume, toggle_pause
PausedAfter(op, p) ==
    IF op = "pause" THEN TRUE
    ELSE IF op = "resume" THEN FALSE
    ELSE ~p

\* dbrt::RobotState<>::kinematics_ = urdf_kinematics
EmuInstallKinematics ==
    /\ mainPc = "emu_start"
    /\ kinematics_set' = TRUE
    /\ mainPc' = "emu_mutex"
    /\ UNCHANGED <<rosOk, joint_count, kinematics_mutex_set, fkVars, buildVars, robotVars,
                   ftVars, consVars, cmdVars>>
    /\ UNCHANGED notNode

\* dbrt::RobotState<>::kinematics_mutex_ = std::make_shared<std::mutex>()
EmuInstallMutex ==
    /\ mainPc = "emu_mutex"
    /\ kinematics_mutex_set' = TRUE
    /\ mainPc' = "emu_robot"
    /\ UNCHANGED <<rosOk, joint_count, kinematics_set, fkVars, buildVars, robotVars, ftVars,
                   consVars, cmdVars>>
    /\ UNCHANGED notNode

\* dbrt::RobotEmulator<State> robot(...)
EmuCreateRobot ==
    /\ mainPc = "emu_robot"
    /\ mainPc' = "emu_run"
    /\ UNCHANGED <<rosOk, joint_count, rsVars, fkVars, buildVars, robotVars, ftVars, consVars,
                   cmdVars>>
    /\ UNCHANGED notNode

\* robot.run(); spinner.start()
EmuRun ==
    /\ mainPc = "emu_run"
    /\ robotRunning' = TRUE
    /\ jsPc' = "idle"
    /\ isPc' = "idle"
    /\ runCalled' = TRUE
    /\ mainPc' = "emu_loop"
    /\ UNCHANGED <<jointCb, imageCb, paused>>
    /\ UNCHANGED <<cmd, lastOp, prevPaused, nLines, nCalls>>
    /\ UNCHANGED <<rosOk, joint_count, rsVars, fkVars, buildVars, ftVars, consVars>>
    /\ UNCHANGED notNode

\* while(ros::ok()): std::getline(std::cin, cmd)
EmuGetline ==
    /\ mainPc = "emu_loop" /\ rosOk
    /\ nLines < MaxLines
    /\ cmd' \in CmdLines
    /\ nLines' = nLines + 1
    /\ mainPc' = "emu_dispatch"
    /\ UNCHANGED <<lastOp, prevPaused, nCalls, runCalled>>
    /\ UNCHANGED <<rosOk, joint_count, rsVars, fkVars, buildVars, robotVars, ftVars, consVars>>
    /\ UNCHANGED notNode

\* if (cmd == "pause") robot.pause(); else if (cmd == "resume") robot.resume();
\* else robot.toggle_pause()
EmuDispatch ==
    /\ mainPc = "emu_dispatch"
    /\ lastOp' = Dispatch(cmd)
    /\ paused' = PausedAfter(Dispatch(cmd), paused)
    /\ prevPaused' = paused
    /\ nCalls' = nCalls + 1
    /\ mainPc' = "emu_loop"
    /\ UNCHANGED <<jointCb, imageCb, robotRunning, jsPc, isPc>>
    /\ UNCHANGED <<cmd, nLines, runCalled>>
    /\ UNCHANGED <<rosOk, joint_count, rsVars, fkVars, buildVars, ftVars, consVars>>
    /\ UNCHANGED notNode

\* The loop ends; robot.shutdown() tells the sensor threads to stop
EmuShutdown ==
    /\ mainPc = "emu_loop" /\ ~rosOk
    /\ robotRunning' = FALSE
    /\ mainPc' = "emu_join"
    /\ UNCHANGED <<jointCb, imageCb, jsPc, isPc, paused>>
    /\ UNCHANGED <<rosOk, joint_count, rsVars, fkVars, buildVars, ftVars, consVars, cmdVars>>
    /\ UNCHANGED notNode

\* robot.shutdown() returns when both sensor threads have ended; return 0
EmuJoined ==
    /\ mainPc = "emu_join"
    /\ jsPc = "stopped" /\ isPc = "stopped"
    /\ mainPc' = "done"
    /\ UNCHANGED <<rosOk, joint_count, rsVars, fkVars, buildVars, robotVars, ftVars, consVars,
                   cmdVars>>
    /\ UNCHANGED notNode

\* The emulator's joint thread, not paused: link poses by forward kinematics
EmuJointSensorFK ==
    /\ jsPc = "idle" /\ robotRunning /\ ~paused
    /\ EnterFK("joint_sensor")
    /\ jsPc' = "fk"
    /\ UNCHANGED <<jointCb, imageCb, robotRunning, isPc, paused>>
    /\ UNCHANGED <<mainVars, rsVars, buildVars, ftVars, consVars, cmdVars>>
    /\ UNCHANGED notNode

\* The emulator's joint thread publishes the joints
EmuJointSensorPublish ==
    /\ jsPc = "fk"
    /\ LeaveFK("joint_sensor")
    /\ jsPc' = "idle"
    /\ UNCHANGED <<jointCb, imageCb, robotRunning, isPc, paused>>
    /\ UNCHANGED <<mainVars, rsVars, buildVars, ftVars, consVars, cmdVars>>
    /\ UNCHANGED notNode

\* The emulator's image thread, not paused: renders the robot
EmuImageSensorRender ==
    /\ isPc = "idle" /\ robotRunning /\ ~paused
    /\ EnterFK("image_sensor")
    /\ isPc' = "render"
    /\ UNCHANGED <<jointCb, imageCb, robotRunning, jsPc, paused>>
    /\ UNCHANGED <<mainVars, rsVars, buildVars, ftVars, consVars, cmdVars>>
    /\ UNCHANGED notNode

\* The emulator's image thread publishes the image
EmuImageSensorPublish ==
    /\ isPc = "render"
    /\ LeaveFK("image_sensor")
    /\ isPc' = "idle"
    /\ UNCHANGED <<jointCb, imageCb, robotRunning, jsPc, paused>>
    /\ UNCHANGED <<mainVars, rsVars, buildVars, ftVars, consVars, cmdVars>>
    /\ UNCHANGED notNode

EmuNext ==
    \/ Interrupt
    \/ EmuInstallKinematics
    \/ EmuInstallMutex
    \/ EmuCreateRobot
    \/ EmuRun
    \/ EmuGetline
    \/ EmuDispatch
    \/ EmuShutdown
    \/ EmuJoined
    \/ EmuJointSensorFK
    \/ EmuJointSensorPublish
    \/ EmuImageSensorRender
    \/ EmuImageSensorPublish
    \/ JointSensorExit
    \/ ImageSensorExit

----------------------------------------------------------------------------
(* ArmRobotAnimator *)

\* Entries of a joint vector; animate calls made in one run
StateSize == 29
MaxAnimCalls == 2

\* The joint vectors a caller holds, and the arguments it passes
Objects == {"state", "scratch"}
Dts == {Fin(500), Fin(1000)}
Dilations == {Fin(0), Fin(1000), Fin(2000)}

Ramp(base, step) == [i \in 0..(StateSize - 1) |-> Fin(base + step * i)]
InitialVectors == {Ramp(0, 0), Ramp(100, 10)}

NoAnimCall == [made |-> FALSE, current |-> "state", next |-> "state", dt |-> Fin(0),
               dilation |-> Fin(0), inc |-> Fin(0), t |-> Fin(0),
               before |-> [o \in Objects |-> Ramp(0, 0)]]

\* 0.1 * dt / dilation * std::sin(t_ / dilation)
Increment(t, dt, dilation) ==
    Mul(Div(Mul(Fin(SCALE \div 10), dt), dilation), Sin(Div(t, dilation)))

\* for (i = from; i < to; ++i) next[i] = current[i] + increment, on the vectors
\* the two references name
RECURSIVE AnimateLoop(_, _, _, _, _, _)
AnimateLoop(m, current, next, i, to, inc) ==
    IF i < to
    THEN AnimateLoop([m EXCEPT ![next][i] = Add(m[current][i], inc)],
                     current, next, i + 1, to, inc)
    ELSE m

\* The two loops with the right arm starting where the left arm ends
AnimateLoops_NoGap(m, current, next, inc) ==
    AnimateLoop(AnimateLoop(m, current, next, 6, 6 + 7, inc),
                current, next, 6 + 7, 6 + 2 * 7 + 8, inc)

\* The left-arm loop, then the right-arm loop
AnimateLoops(m, current, next, inc) ==
    AnimateLoop(AnimateLoop(m, current, next, 6, 6 + 7, inc),
                current, next, 6 + 7 + 8, 6 + 2 * 7 + 8, inc)

\* animate(current, dt, dilation, next): current and next are references, and
\* may name the same vector
animate ==
    /\ nAnimCalls < MaxAnimCalls
    /\ \E current \in Objects, next \in Objects, dt \in Dts, dilation \in Dilations :
          LET t == Add(t_, dt)
              inc == Increment(t, dt, dilation)
          IN  /\ t_' = t
              /\ mem' = AnimateLoops(mem, current, next, inc)
              /\ animCall' = [made |-> TRUE, current |-> current, next |-> next,
                              dt |-> dt, dilation |-> dilation, inc |-> inc,
                              t |-> t_, before |-> mem]
    /\ nAnimCalls' = nAnimCalls + 1
    /\ UNCHANGED notAnim

\* ArmRobotAnimator(): t_(0.); the vectors as the caller made them
AnimInit ==
    /\ t_ = Fin(0)
    /\ mem \in [Objects -> InitialVectors]
    /\ animCall = NoAnimCall
    /\ nAnimCalls = 0

AnimIdle ==
    /\ t_ = Fin(0)
    /\ mem = [o \in Objects |-> Ramp(0, 0)]
    /\ animCall = NoAnimCall
    /\ nAnimCalls = 0

AnimNext == animate

----------------------------------------------------------------------------
(* Specifications *)

vars == <<obsVars, thrVars, nodeVars, animVars>>

InitAnim == ObsInit /\ ThrIdle /\ NodeIdle /\ AnimInit
SpecAnim == InitAnim /\ [][AnimNext]_vars

InitObs == ObsInit /\ ThrIdle /\ NodeIdle /\ AnimIdle
SpecObs == InitObs /\ [][ObsNext]_vars

InitThreads == ObsConstructed /\ ThrInit /\ NodeIdle /\ AnimIdle
SpecThreads == InitThreads /\ [][ThrNext]_vars

InitSim == ObsInit /\ ThrIdle /\ NodeInit("sim_start") /\ joint_count \in 1..MaxJoints
           /\ AnimIdle
SpecSim == InitSim /\ [][SimNext]_vars

InitEmu == ObsInit /\ ThrIdle /\ NodeInit("emu_start") /\ joint_count \in 1..MaxJoints
           /\ AnimIdle
SpecEmu == InitEmu /\ [][EmuNext]_vars

----------------------------------------------------------------------------
(* Properties of KinectObserver *)

\* The parameter sets the data model calls valid
ValidArgs(a) ==
    /\ a.tail_weight.v > 0 /\ a.tail_weight.v < SCALE
    /\ a.model_sigma.v >= 0
    /\ a.sigma_factor.v >= 0
    /\ a.half_life_depth.v > 0
    /\ a.max_depth.v > 0

\* C4: after Condition(prediction, occlusion = false) with an infinite
\* prediction, Probability(observation) returns tail_weight/max_depth for
\* every observation, whatever model_sigma, sigma_factor and half_life_depth.
C4_InfiniteVisibleIsTail ==
    (/\ lastCall.op = "Probability"
     /\ ctxSet.set
     /\ ~ctxSet.occlusion
     /\ isinf(ctxSet.prediction))
    => lastCall.ret = Div(ctorArgs.tail_weight, ctorArgs.max_depth)

C4_Witness ==
    /\ lastCall.op = "Probability"
    /\ ctxSet.set /\ ~ctxSet.occlusion /\ ctxSet.prediction = PInf
    /\ lastCall.arg = Fin(1000)
    /\ ctorArgs.model_sigma = Fin(500) /\ ctorArgs.sigma_factor = Fin(250)
    /\ ctorArgs.tail_weight = Fin(500) /\ ctorArgs.max_depth = Fin(2000)
    /\ lastCall.ret = Fin(250)

\* The likelihood case selected by a context (prediction, occlusion)
SelectedCase(P, prediction, occlusion, observation) ==
    CASE ~occlusion /\ isinf(prediction)  -> TailTerm(P)
      [] ~occlusion /\ ~isinf(prediction) -> VisibleFinite(P, prediction, observation)
      [] occlusion /\ isinf(prediction)   -> OccludedInfinite(P, observation)
      [] occlusion /\ ~isinf(prediction)  -> OccludedFinite(P, prediction, observation)

Queries == {"Probability", "LogProbability"}

C5_ProbabilityNonNegative ==
    (/\ lastCall.op = "Probability"
     /\ ctxSet.set
     /\ ValidArgs(ctorArgs))
    => (IsFinite(lastCall.ret) /\ lastCall.ret.v >= 0)

\* C6: LogProbability ends in a NumericalError whenever the density of the
\* current context is zero or negative; it returns no value then.
C6_LogProbabilityRaises ==
    (/\ lastCall.op = "LogProbability"
     /\ ctxSet.set
     /\ LeqZero(ProbabilityOf(params, prediction_, occlusion_, lastCall.arg)))
    => lastCall.outcome = "NumericalError"

\* C7: no observer exists that was constructed with max_depth <= 0 or
\* half_life_depth <= 0: such a construction fails with a ConfigurationError.
C7_ConstructionRejects ==
    obsPc = "live" => (ctorArgs.max_depth.v > 0 /\ ctorArgs.half_life_depth.v > 0)

\* What Probability returns for the context of the thread's own latest Condition
OwnContextResult(t) ==
    ProbabilityOf(params, tCtx[t].prediction, tCtx[t].occlusion, tResult[t].obs)

\* C8: when every thread calls Condition and Probability on its own observer
\* instance, each Probability result is the one for the context the same
\* thread set with its latest Condition, under every interleaving.
C8_OwnInstanceIsolated ==
    (thrObs[1] # thrObs[2]) =>
        \A t \in Threads : tResult[t].set => tResult[t].ret = OwnContextResult(t)

\* Thread 1 got its result although thread 2 ran a Condition, with another
\* context, between thread 1's Condition and the end of its Probability
C8_Witness ==
    /\ thrObs[1] # thrObs[2]
    /\ tResult[1].set /\ tInterleaved[1]
    /\ tCtx[2].set /\ tCtx[2] # tCtx[1]
    /\ ProbabilityOf(params, tCtx[2].prediction, tCtx[2].occlusion, tResult[1].obs)
          # tResult[1].ret

\* C8, second half: the same statement for two threads sharing one instance
\* (it does not hold: TLC finds a result that belongs to the other thread's context)
C8_SharedInstanceIsolated ==
    (thrObs[1] = thrObs[2]) =>
        \A t \in Threads : tResult[t].set => tResult[t].ret = OwnContextResult(t)

----------------------------------------------------------------------------
(* Properties of the fusion tracker simulation node *)

ThreadsStarted == jsPc # "off" \/ isPc # "off" \/ rotPc # "off" \/ visPc # "off"

\* C2: in a node that installs the shared kinematics into RobotState, the guard
\* is installed before any sensor, tracker or publisher thread is started, and
\* no two contexts are inside a forward-kinematics computation at the same time.
C2_KinematicsGuarded ==
    /\ (kinematics_set /\ ThreadsStarted) => kinematics_mutex_set
    /\ Cardinality(inFK) <= 1

ShutdownReturned == mainPc \in {"robot_shutdown", "robot_join", "done"}

Built == mainPc \notin {"sim_start", "trackers", "build", "crashed"}

\* C9: build() leaves a tracker with exactly num_joints joint filters, the
\* i-th built from transition_builder->build(i) and sensor_builder->build(i),
\* the indices used in increasing order, none skipped or used twice.
C9_OneFilterPerJoint ==
    Built =>
        /\ Len(joint_filters) = joint_count
        /\ \A i \in 1..Len(joint_filters) :
              /\ joint_filters[i].transition = TransitionBuild(i - 1)
              /\ joint_filters[i].sensor = SensorBuild(i - 1)
        /\ buildLog = [i \in 1..joint_count |-> i - 1]

C9_Witness ==
    /\ mainPc = "robot"
    /\ joint_count = MaxJoints
    /\ Len(joint_filters) = MaxJoints
    /\ joint_filters[MaxJoints].transition = TransitionBuild(MaxJoints - 1)

----------------------------------------------------------------------------
(* Properties of the arm emulator node *)

\* C10: each input line leads to exactly one call: 'pause' to pause(), which
\* leaves the emulator paused, 'resume' to resume(), which leaves it running,
\* any other line to toggle_pause(), which flips the paused state; run() has
\* been called before the first of them.
C10_CommandLoop ==
    /\ nCalls = (IF mainPc = "emu_dispatch" THEN nLines - 1 ELSE nLines)
    /\ nCalls > 0 => runCalled
    /\ (nCalls > 0 /\ mainPc # "emu_dispatch") =>
          /\ cmd = "pause" => (lastOp = "pause" /\ paused)
          /\ cmd = "resume" => (lastOp = "resume" /\ ~paused)
          /\ cmd \notin {"pause", "resume"} =>
                (lastOp = "toggle_pause" /\ paused = ~prevPaused)

\* 'resume' was entered while the emulator was running, and left it running
C10_Witness ==
    /\ mainPc = "emu_loop"
    /\ nCalls = 2
    /\ cmd = "resume" /\ lastOp = "resume"
    /\ ~prevPaused /\ ~paused

\* A sensor thread of the robot has been started and has not ended
SensorThreadsLive == jsPc \in {"idle"} \/ isPc \in {"idle", "render"}

\* C12: in the simulation node no joints_obsrv_callback and no
\* image_obsrv_callback is delivered to the fusion tracker before
\* fusion_tracker.initialize has completed: a sensor thread only runs once both
\* callbacks are registered and initialize is done, every delivery step finds
\* the tracker initialized, and the tracker's update loops only run after
\* robot.run() was called.
C12_NoCallbackBeforeInitialize ==
    /\ [](SensorThreadsLive => (jointCb /\ imageCb /\ ftInitialized))
    /\ [](ftRunning => runCalled)
    /\ [][(JointSensorTick \/ ImageSensorDeliver) => ftInitialized]_vars

\* Both callbacks have delivered after initialize and before
\* fusion_tracker.run() has started the update loops
C12_Witness ==
    /\ mainPc = "ft_run"
    /\ ftInitialized /\ ~ftRunning /\ robotRunning
    /\ jQueue # <<>> /\ iQueue # <<>>

----------------------------------------------------------------------------
(* Properties of ArmRobotAnimator *)

\* The entries of the left arm and of the right arm
ArmEntries == (6..12) \cup (21..27)

Entries == 0..(StateSize - 1)

\* C13: animate(current, dt, dilation, next) writes only entries 6..12 and
\* 21..27 of next, every other entry of next keeps the value it had before the
\* call, every written entry is the value current's entry had before the call
\* plus one common increment, and no vector other than next changes: current
\* is left as it was whenever next is a different vector.  When the caller
\* passes the same vector as current and next, that vector is advanced in
\* place in exactly the arm entries.
C13_ArmEntriesWritten ==
    animCall.made =>
        /\ \A i \in Entries \ ArmEntries :
               mem[animCall.next][i] = animCall.before[animCall.next][i]
        /\ \A i \in ArmEntries :
               mem[animCall.next][i] = Add(animCall.before[animCall.current][i], animCall.inc)
        /\ \A o \in Objects \ {animCall.next} : mem[o] = animCall.before[o]
        /\ animCall.inc = Increment(t_, animCall.dt, animCall.dilation)
        /\ t_ = Add(animCall.t, animCall.dt)

\* A call with distinct vectors that differ outside the arms: next keeps its
\* own values there and the arm entries moved by a non-zero increment
C13_Witness ==
    /\ animCall.made
    /\ animCall.current = "state" /\ animCall.next = "scratch"
    /\ animCall.before["state"] = Ramp(100, 10)
    /\ animCall.before["scratch"] = Ramp(0, 0)
    /\ IsFinite(animCall.inc) /\ animCall.inc.v > 0
    /\ mem["scratch"][5] = Fin(0) /\ mem["scratch"][13] = Fin(0)
    /\ mem["scratch"][28] = Fin(0)
    /\ mem["scratch"][6] = Fin(160 + animCall.inc.v)
    /\ mem["scratch"][27] = Fin(370 + animCall.inc.v)
    /\ mem["state"] = Ramp(100, 10)

\* C13 as stated: as above, and current is never modified by the call
C13_CurrentNeverModified ==
    animCall.made =>
        /\ \A i \in Entries \ ArmEntries :
               mem[animCall.next][i] = animCall.before[animCall.next][i]
        /\ \A i \in ArmEntries :
               mem[animCall.next][i] = Add(animCall.before[animCall.current][i], animCall.inc)
        /\ mem[animCall.current] = animCall.before[animCall.current]

====
